---------------------------- MODULE Spec2Model ----------------------------
(***************************************************************************)
(* A model of mshed (src/src/main.rs), a modal terminal text editor.       *)
(*                                                                         *)
(* Text is modelled as sequences of one-character strings: a line of the   *)
(* buffer, the command text, a file name and the content of a file are all *)
(* such sequences.  Only ASCII characters are modelled, so a byte offset   *)
(* and a character offset coincide.                                        *)
(*                                                                         *)
(* A key is either a character key Key::Char(c), written as the            *)
(* one-character string c (Enter is "\n"), or one of the special keys      *)
(* "Esc", "Backspace" and "Other" (any key no handler names).              *)
(***************************************************************************)
EXTENDS Integers, Sequences, FiniteSets, TLC

VARIABLES
    mode,            \* Editor.mode: "Normal", "Insert" or "Command"
    cursor_x,        \* Editor.cursor_x
    cursor_y,        \* Editor.cursor_y
    buffer,          \* Editor.buffer: sequence of lines
    command_buffer,  \* Editor.command_buffer: command line / status text
    filename,        \* Editor.filename: NoName or a path
    scroll_x,        \* Editor.scroll_x
    scroll_y,        \* Editor.scroll_y
    fs,              \* the file system: path -> content, for the files that exist
    term_width,      \* terminal_size().0
    term_height,     \* terminal_size().1
    overflow_checks, \* build profile: TRUE when integer overflow panics (debug)
    pc,              \* position in main: "draw", "key", "exited", "panicked"
    frame,           \* <<what draw put on screen>> in this loop iteration, or <<>>
    key,             \* the key read in the latest loop iteration
    script,          \* the keys still to be typed, in the scripted specifications
    first_load       \* the buffer as it was when main entered its loop

vars == <<mode, cursor_x, cursor_y, buffer, command_buffer, filename, scroll_x,
          scroll_y, fs, term_width, term_height, overflow_checks, pc, frame,
          key, script, first_load>>

-----------------------------------------------------------------------------
(* Bounds of the model: on the size of the buffer (its lines plus their    *)
(* characters) and on the scroll offsets (their sum), for the free runs.   *)

MaxSize == 2
MaxScroll == 1

-----------------------------------------------------------------------------
(* Values. *)

(* Option::None for the file name, the frame and the command line; a text *)
(* is a sequence of one-character strings, so none of them is a text.      *)
NoName == <<"[No Name]">>
NoFrame == <<>>
NoText == <<"[none]">>
NoKey == "NoKey"

SpecialKeys == {"Esc", "Backspace", "Other"}

IsChar(k) == k \notin SpecialKeys

Whitespace == {" ", "\t", "\n", "\r"}

ErrNoFile ==
    <<"E","r","r","o","r",":"," ","n","o"," ","f","i","l","e"," ","t","o",
      " ","w","r","i","t","e">>

PathA == <<"a">>

(* Paths that cannot be opened, neither for reading nor for writing: the   *)
(* empty path.  Every other path can be created and written.               *)
Unopenable == {<<>>}

-----------------------------------------------------------------------------
(* Text helpers. *)

Min(a, b) == IF a < b THEN a ELSE b

StartsWith(s, p) == Len(s) >= Len(p) /\ SubSeq(s, 1, Len(p)) = p

RECURSIVE TrimStart(_)
TrimStart(s) ==
    IF s # <<>> /\ Head(s) \in Whitespace THEN TrimStart(Tail(s)) ELSE s

RECURSIVE TrimEnd(_)
TrimEnd(s) ==
    IF s # <<>> /\ s[Len(s)] \in Whitespace
    THEN TrimEnd(SubSeq(s, 1, Len(s) - 1))
    ELSE s

Trim(s) == TrimEnd(TrimStart(s))

(* str::split_at(2).1 *)
SplitAt2(s) == SubSeq(s, 3, Len(s))

(* String::insert(idx, c) *)
InsertAt(line, idx, c) ==
    SubSeq(line, 1, idx) \o <<c>> \o SubSeq(line, idx + 1, Len(line))

(* String::remove(idx) *)
RemoveAt(line, idx) ==
    SubSeq(line, 1, idx) \o SubSeq(line, idx + 2, Len(line))

(* Vec::insert one place too early. *)
VecInsertBefore(v, idx, elem) ==
    SubSeq(v, 1, idx - 1) \o <<elem>> \o SubSeq(v, idx, Len(v))

(* Vec::insert that pushes the element at the end. *)
VecInsertAtEnd(v, idx, elem) == Append(v, elem)

(* Vec::insert(idx, elem) *)
VecInsert(v, idx, elem) ==
    SubSeq(v, 1, idx) \o <<elem>> \o SubSeq(v, idx + 1, Len(v))

(* Vec::remove one place too early. *)
VecRemoveBefore(v, idx) ==
    SubSeq(v, 1, idx - 1) \o SubSeq(v, idx + 1, Len(v))

(* Vec::remove(idx) *)
VecRemove(v, idx) ==
    SubSeq(v, 1, idx) \o SubSeq(v, idx + 2, Len(v))

(* The line of a 0-based index. *)
Line(buf, y) == buf[y + 1]

StripCR(l) ==
    IF l # <<>> /\ l[Len(l)] = "\r" THEN SubSeq(l, 1, Len(l) - 1) ELSE l

(* str::lines(): split after every "\n"; a piece that ends in "\n" loses   *)
(* it and then one "\r" before it; a last piece with no "\n" is kept as it *)
(* is; no line is produced after a final "\n".                             *)
RECURSIVE LinesAcc(_, _, _)
LinesAcc(s, cur, acc) ==
    IF s = <<>>
    THEN IF cur = <<>> THEN acc ELSE Append(acc, cur)
    ELSE IF Head(s) = "\n"
         THEN LinesAcc(Tail(s), <<>>, Append(acc, StripCR(cur)))
         ELSE LinesAcc(Tail(s), Append(cur, Head(s)), acc)

Lines(contents) == LinesAcc(contents, <<>>, <<>>)

(* save_file's loop without the "\n" between lines. *)
RECURSIVE WriteLinesNoSeparator(_, _)
WriteLinesNoSeparator(buf, i) ==
    IF i > Len(buf) THEN <<>> ELSE buf[i] \o WriteLinesNoSeparator(buf, i + 1)

(* save_file's loop with a "\n" after the last line too. *)
RECURSIVE WriteLinesTrailing(_, _)
WriteLinesTrailing(buf, i) ==
    IF i > Len(buf)
    THEN <<>>
    ELSE buf[i] \o <<"\n">> \o WriteLinesTrailing(buf, i + 1)

(* What the loop of save_file writes: every line, and "\n" after each line *)
(* but the last.                                                           *)
RECURSIVE WriteLines(_, _)
WriteLines(buf, i) ==
    IF i > Len(buf)
    THEN <<>>
    ELSE buf[i] \o (IF i - 1 < Len(buf) - 1 THEN <<"\n">> ELSE <<>>)
         \o WriteLines(buf, i + 1)

-----------------------------------------------------------------------------
(* The editor and its surroundings as one record, for the handlers. *)

World ==
    [mode |-> mode, cursor_x |-> cursor_x, cursor_y |-> cursor_y,
     buffer |-> buffer, command_buffer |-> command_buffer,
     filename |-> filename, scroll_x |-> scroll_x, scroll_y |-> scroll_y,
     fs |-> fs, status |-> "running"]

(* Editor::new *)
New(files) ==
    [mode |-> "Normal", cursor_x |-> 0, cursor_y |-> 0, buffer |-> << <<>> >>,
     command_buffer |-> <<>>, filename |-> NoName, scroll_x |-> 0,
     scroll_y |-> 0, fs |-> files, status |-> "running"]

Panic(w) == [w EXCEPT !.status = "panicked"]

Exit(w) == [w EXCEPT !.status = "exited"]

(* display_message that drops the message. *)
DisplayMessageDropped(w, message) == w

(* Editor::display_message *)
DisplayMessage(w, message) == [w EXCEPT !.command_buffer = message]

(* fs::read_to_string succeeds *)
Readable(files, path) == path \notin Unopenable /\ path \in DOMAIN files

(* load_file that sets the file name only when the read succeeds. *)
LoadFileKeepsName(w, path) ==
    IF Readable(w.fs, path)
    THEN [w EXCEPT !.buffer = Lines(w.fs[path]), !.filename = path]
    ELSE [w EXCEPT !.buffer = << <<>> >>]

(* Editor::load_file *)
LoadFile(w, path) ==
    IF Readable(w.fs, path)
    THEN [w EXCEPT !.buffer = Lines(w.fs[path]), !.filename = path]
    ELSE [w EXCEPT !.buffer = << <<>> >>, !.filename = path]

(* save_file that reports a failed open as a status message and goes on. *)
SaveFileReportsFailure(w) ==
    IF w.filename # NoName
    THEN IF w.filename \in Unopenable
         THEN DisplayMessage(w, <<"E", "r", "r", "o", "r">>)
         ELSE [w EXCEPT !.fs = (w.filename :> WriteLines(w.buffer, 1)) @@ w.fs]
    ELSE DisplayMessage(w, ErrNoFile)

(* Editor::save_file *)
SaveFile(w) ==
    IF w.filename # NoName
    THEN IF w.filename \in Unopenable
         THEN Panic(w)
         ELSE [w EXCEPT !.fs = (w.filename :> WriteLines(w.buffer, 1)) @@ w.fs]
    ELSE DisplayMessage(w, ErrNoFile)

(* handle_normal_mode whose k and j keep the column when they change the   *)
(* line.                                                                   *)
HandleNormalModeKeepsColumn(w, k) ==
    CASE k = "i" -> [w EXCEPT !.mode = "Insert"]
      [] k = ":" -> [w EXCEPT !.mode = "Command", !.command_buffer = <<>>]
      [] k = "h" ->
            IF w.cursor_x > 0 THEN [w EXCEPT !.cursor_x = @ - 1]
            ELSE IF w.scroll_x > 0 THEN [w EXCEPT !.scroll_x = @ - 1]
            ELSE w
      [] k = "l" ->
            IF w.cursor_y >= Len(w.buffer) THEN Panic(w)
            ELSE IF w.cursor_x < Len(Line(w.buffer, w.cursor_y))
            THEN [w EXCEPT !.cursor_x = @ + 1]
            ELSE IF w.cursor_x >= term_width THEN [w EXCEPT !.scroll_x = @ + 1]
            ELSE w
      [] k = "k" ->
            IF w.cursor_y > w.scroll_y
            THEN IF w.cursor_y - 1 >= Len(w.buffer) THEN Panic(w)
                 ELSE [w EXCEPT !.cursor_y = @ - 1]
            ELSE IF w.scroll_y > 0 THEN [w EXCEPT !.scroll_y = @ - 1]
            ELSE w
      [] k = "j" ->
            IF w.cursor_y + 1 < Len(w.buffer)
            THEN [w EXCEPT !.cursor_y = @ + 1]
            ELSE IF w.cursor_y < Len(w.buffer) /\ w.cursor_y >= term_height
            THEN [w EXCEPT !.scroll_y = @ + 1]
            ELSE w
      [] OTHER -> w

(* Editor::handle_normal_mode *)
HandleNormalMode(w, k) ==
    CASE k = "i" -> [w EXCEPT !.mode = "Insert"]
      [] k = ":" -> [w EXCEPT !.mode = "Command", !.command_buffer = <<>>]
      [] k = "h" ->
            IF w.cursor_x > 0 THEN [w EXCEPT !.cursor_x = @ - 1]
            ELSE IF w.scroll_x > 0 THEN [w EXCEPT !.scroll_x = @ - 1]
            ELSE w
      [] k = "l" ->
            IF w.cursor_y >= Len(w.buffer) THEN Panic(w)
            ELSE IF w.cursor_x < Len(Line(w.buffer, w.cursor_y))
            THEN [w EXCEPT !.cursor_x = @ + 1]
            ELSE IF w.cursor_x >= term_width THEN [w EXCEPT !.scroll_x = @ + 1]
            ELSE w
      [] k = "k" ->
            IF w.cursor_y > w.scroll_y
            THEN IF w.cursor_y - 1 >= Len(w.buffer) THEN Panic(w)
                 ELSE [w EXCEPT !.cursor_y = @ - 1,
                                !.cursor_x = Min(Len(Line(w.buffer, w.cursor_y - 1)),
                                                 w.cursor_x)]
            ELSE IF w.scroll_y > 0 THEN [w EXCEPT !.scroll_y = @ - 1]
            ELSE w
      [] k = "j" ->
            IF w.cursor_y + 1 < Len(w.buffer)
            THEN [w EXCEPT !.cursor_y = @ + 1,
                           !.cursor_x = Min(Len(Line(w.buffer, w.cursor_y + 1)),
                                            w.cursor_x)]
            ELSE IF w.cursor_y < Len(w.buffer) /\ w.cursor_y >= term_height
            THEN [w EXCEPT !.scroll_y = @ + 1]
            ELSE w
      [] OTHER -> w

(* Editor::handle_insert_mode *)
HandleInsertMode(w, k) ==
    CASE k = "Esc" -> [w EXCEPT !.mode = "Normal"]
      [] k = "\n" ->
            IF w.cursor_y >= Len(w.buffer)
               \/ w.cursor_x > Len(Line(w.buffer, w.cursor_y))
               \/ (term_height < 2 /\ overflow_checks)
            THEN Panic(w)
            ELSE LET line == Line(w.buffer, w.cursor_y)
                     remaining_line == SubSeq(line, w.cursor_x + 1, Len(line))
                     kept == SubSeq(line, 1, w.cursor_x)
                     truncated == [w.buffer EXCEPT ![w.cursor_y + 1] = kept]
                 IN  [w EXCEPT
                        !.buffer = VecInsert(truncated, w.cursor_y + 1, remaining_line),
                        !.cursor_y = @ + 1,
                        !.cursor_x = 0,
                        !.scroll_y = IF term_height >= 2
                                        /\ w.cursor_y + 1 >= term_height - 2
                                     THEN @ + 1 ELSE @]
      [] k = "Backspace" ->
            IF w.cursor_x > 0
            THEN IF w.cursor_y >= Len(w.buffer)
                    \/ w.cursor_x - 1 >= Len(Line(w.buffer, w.cursor_y))
                 THEN Panic(w)
                 ELSE [w EXCEPT
                         !.scroll_x = IF w.cursor_x <= w.scroll_x + 1 /\ w.scroll_x # 0
                                      THEN @ - 1 ELSE @,
                         !.cursor_x = @ - 1,
                         !.buffer[w.cursor_y + 1] = RemoveAt(@, w.cursor_x - 1)]
            ELSE IF w.cursor_y > 0
            THEN IF w.cursor_y >= Len(w.buffer) THEN Panic(w)
                 ELSE LET prev_line_length == Len(Line(w.buffer, w.cursor_y - 1))
                          current_line == Line(w.buffer, w.cursor_y)
                          removed == VecRemove(w.buffer, w.cursor_y)
                      IN  [w EXCEPT
                             !.buffer = [removed EXCEPT
                                           ![w.cursor_y] = @ \o current_line],
                             !.cursor_y = @ - 1,
                             !.cursor_x = prev_line_length]
            ELSE w
      [] k \notin {"Esc", "\n", "Backspace"} /\ IsChar(k) ->
            IF w.cursor_y >= Len(w.buffer)
               \/ w.cursor_x > Len(Line(w.buffer, w.cursor_y))
            THEN Panic(w)
            ELSE [w EXCEPT
                    !.buffer[w.cursor_y + 1] = InsertAt(@, w.cursor_x, k),
                    !.cursor_x = @ + 1,
                    !.scroll_x = IF w.cursor_x + 1 >= term_width THEN @ + 1 ELSE @]
      [] OTHER -> w

(* An execute_command that leaves the mode as it is. *)
ToNormalStays(w) == w

(* The end of execute_command, for a command that neither exited nor     *)
(* panicked: self.mode = Mode::Normal.                                     *)
ToNormal(w) == IF w.status = "running" THEN [w EXCEPT !.mode = "Normal"] ELSE w

(* execute_command whose last arm takes the text for a path and loads it. *)
ExecuteCommandElseLoads(w) ==
    LET command == w.command_buffer
    IN  IF Trim(command) = <<"q">>
        THEN Exit(w)
        ELSE IF StartsWith(command, <<"w", " ">>)
        THEN ToNormal(SaveFile([w EXCEPT !.filename = Trim(SplitAt2(command))]))
        ELSE IF Trim(command) = <<"w">>
        THEN ToNormal(SaveFile(w))
        ELSE IF Trim(command) = <<"w", "q">>
        THEN LET saved == SaveFile(w)
             IN  IF saved.status = "running" THEN Exit(saved) ELSE saved
        ELSE IF StartsWith(command, <<"e", " ">>)
        THEN ToNormal(LoadFile(w, Trim(SplitAt2(command))))
        ELSE ToNormal(LoadFile(w, Trim(command)))

(* Editor::execute_command: the arms of the match, first match wins. *)
ExecuteCommand(w) ==
    LET command == w.command_buffer
    IN  IF Trim(command) = <<"q">>
        THEN Exit(w)
        ELSE IF StartsWith(command, <<"w", " ">>)
        THEN ToNormal(SaveFile([w EXCEPT !.filename = Trim(SplitAt2(command))]))
        ELSE IF Trim(command) = <<"w">>
        THEN ToNormal(SaveFile(w))
        ELSE IF Trim(command) = <<"w", "q">>
        THEN LET saved == SaveFile(w)
             IN  IF saved.status = "running" THEN Exit(saved) ELSE saved
        ELSE IF StartsWith(command, <<"e", " ">>)
        THEN ToNormal(LoadFile(w, Trim(SplitAt2(command))))
        ELSE ToNormal(w)

(* handle_command_mode whose Escape clears the command text and stays in   *)
(* Command mode.                                                           *)
HandleCommandModeEscStays(w, k) ==
    CASE k = "Esc" -> [w EXCEPT !.command_buffer = <<>>]
      [] k = "\n" -> ExecuteCommand(w)
      [] k = "Backspace" ->
            [w EXCEPT !.command_buffer =
                        IF @ = <<>> THEN @ ELSE SubSeq(@, 1, Len(@) - 1)]
      [] k \notin {"Esc", "\n", "Backspace"} /\ IsChar(k) ->
            [w EXCEPT !.command_buffer = Append(@, k)]
      [] OTHER -> w

(* Editor::handle_command_mode *)
HandleCommandMode(w, k) ==
    CASE k = "Esc" -> [w EXCEPT !.mode = "Normal"]
      [] k = "\n" -> ExecuteCommand(w)
      [] k = "Backspace" ->
            [w EXCEPT !.command_buffer =
                        IF @ = <<>> THEN @ ELSE SubSeq(@, 1, Len(@) - 1)]
      [] k \notin {"Esc", "\n", "Backspace"} /\ IsChar(k) ->
            [w EXCEPT !.command_buffer = Append(@, k)]
      [] OTHER -> w

(* process_key that hands the keys handle_normal_mode does not name to     *)
(* handle_insert_mode.                                                     *)
ProcessKeyNormalEdits(w, k) ==
    CASE w.mode = "Normal" ->
            IF k \in {"i", ":", "h", "j", "k", "l"}
            THEN HandleNormalMode(w, k)
            ELSE HandleInsertMode(w, k)
      [] w.mode = "Insert" -> HandleInsertMode(w, k)
      [] w.mode = "Command" -> HandleCommandMode(w, k)

(* Editor::process_key *)
ProcessKey(w, k) ==
    CASE w.mode = "Normal" -> HandleNormalMode(w, k)
      [] w.mode = "Insert" -> HandleInsertMode(w, k)
      [] w.mode = "Command" -> HandleCommandMode(w, k)

-----------------------------------------------------------------------------
(* Editor::draw *)

(* end_line of draw; scroll_y + term_height - 2 wraps to a huge value when *)
(* it underflows in a build without overflow checks.                       *)
EndLine ==
    IF scroll_y + term_height >= 2
    THEN Min(scroll_y + term_height - 2, Len(buffer))
    ELSE Len(buffer)

(* The slice buffer[start_line..end_line] panics when it starts after its  *)
(* end, and the subtractions panic on underflow when the build checks      *)
(* integer overflow.                                                       *)
DrawPanics ==
    \/ overflow_checks /\ scroll_y + term_height < 2
    \/ scroll_y > EndLine
    \/ overflow_checks /\ (scroll_x > cursor_x \/ scroll_y > cursor_y)

(* The slice of a line draw shows. *)
VisibleLine(line) ==
    IF scroll_x < Len(line)
    THEN SubSeq(line, scroll_x + 1, Min(scroll_x + term_width, Len(line)))
    ELSE <<>>

(* `as u16` after a usize computation that may have wrapped. *)
AsU16(n) == n % 65536

Render ==
    LET start_line == scroll_y
        end_line == EndLine
    IN  [rows |-> [i \in 1..(end_line - start_line) |->
                     VisibleLine(buffer[start_line + i])],
         status_mode |-> mode,
         status_name |-> filename,
         goto_x |-> AsU16(cursor_x - scroll_x + 1),
         goto_y |-> AsU16(cursor_y - scroll_y + 1),
         command_line |-> IF mode = "Command" THEN <<":">> \o command_buffer
                          ELSE NoText]

Draw ==
    /\ pc = "draw"
    /\ IF DrawPanics
       THEN pc' = "panicked" /\ frame' = NoFrame
       ELSE pc' = "key" /\ frame' = <<Render>>
    /\ UNCHANGED <<mode, cursor_x, cursor_y, buffer, command_buffer, filename,
                   scroll_x, scroll_y, fs, term_width, term_height,
                   overflow_checks, key, script, first_load>>

-----------------------------------------------------------------------------
(* main *)

(* The state a handler leaves behind, and the loop's next position. *)
Commit(w, k) ==
    /\ mode' = w.mode
    /\ cursor_x' = w.cursor_x
    /\ cursor_y' = w.cursor_y
    /\ buffer' = w.buffer
    /\ command_buffer' = w.command_buffer
    /\ filename' = w.filename
    /\ scroll_x' = w.scroll_x
    /\ scroll_y' = w.scroll_y
    /\ fs' = w.fs
    /\ pc' = IF w.status = "running" THEN "draw" ELSE w.status
    /\ key' = k
    /\ frame' = NoFrame
    /\ UNCHANGED <<term_width, term_height, overflow_checks, first_load>>

(* The model's bounds on the editor's state. *)
(* The size of a buffer: one for every line, one for every character. *)
RECURSIVE Size(_)
Size(buf) == IF buf = <<>> THEN 0 ELSE 1 + Len(Head(buf)) + Size(Tail(buf))

InBounds(w) ==
    /\ Size(w.buffer) <= MaxSize
    /\ w.scroll_x + w.scroll_y <= MaxScroll

Widths == {1, 2}
Heights == {3}

(* A start of the program: the files that exist, and the argument given.   *)
Starts ==
    { [files |-> <<>>, arg |-> NoName],
      [files |-> <<>>, arg |-> PathA],
      [files |-> PathA :> <<>>, arg |-> PathA],
      [files |-> PathA :> <<"a", "\n">>, arg |-> PathA] }

(* main up to the loop: Editor::new, then load_file of the argument. *)
Startup(files, arg) ==
    IF arg = NoName THEN New(files) ELSE LoadFile(New(files), arg)

InitWith(files, arg, keys) ==
    LET w == Startup(files, arg)
    IN  /\ mode = w.mode
        /\ cursor_x = w.cursor_x
        /\ cursor_y = w.cursor_y
        /\ buffer = w.buffer
        /\ command_buffer = w.command_buffer
        /\ filename = w.filename
        /\ scroll_x = w.scroll_x
        /\ scroll_y = w.scroll_y
        /\ fs = w.fs
        /\ pc = "draw"
        /\ frame = NoFrame
        /\ key = NoKey
        /\ script = keys
        /\ first_load = w.buffer

Init ==
    /\ term_width \in Widths
    /\ term_height \in Heights
    /\ overflow_checks \in BOOLEAN
    /\ \E s \in Starts : InitWith(s.files, s.arg, <<>>)

(* The command texts typed in Command mode. *)
CommandTexts ==
    { <<"q">>, <<"w", "q">>, <<"w", " ", "a">>, <<"e", " ", "a">> }

IsCommandPrefix(s) == \E c \in CommandTexts : StartsWith(c, s)

InsertChars == {"a"}

(* The keys typed in each mode. *)
KeysOf(m) ==
    CASE m = "Normal" -> {"i", ":", "h", "j", "k", "l", "Esc"}
      [] m = "Insert" -> {"Esc", "\n", "Backspace"} \cup InsertChars
      [] m = "Command" ->
            {"Esc", "\n", "Backspace"}
            \cup {c \in {"q", "w", "e", "a", " "} :
                     IsCommandPrefix(Append(command_buffer, c))}

(* One turn of the loop after the draw: keys.next() and process_key. *)
KeyPress ==
    /\ pc = "key"
    /\ \E k \in KeysOf(mode) :
          LET w == ProcessKey(World, k)
          IN  /\ InBounds(w)
              /\ Commit(w, k)
    /\ UNCHANGED script

Next == Draw \/ KeyPress

Spec == Init /\ [][Next]_vars

-----------------------------------------------------------------------------
(* Scripted runs: the keys come from a fixed sequence, typed in order. *)

ScriptKey ==
    /\ pc = "key"
    /\ script # <<>>
    /\ Commit(ProcessKey(World, Head(script)), Head(script))
    /\ script' = Tail(script)

NextScript == Draw \/ ScriptKey

(* File contents of up to MaxContent characters. *)
MaxContent == 3

ContentChars == {"a", "\n", "\r"}

Contents == UNION {[1..n -> ContentChars] : n \in 0..MaxContent}

(* Load a file at startup, save it with :w, load it again with :e a. *)
RoundTripKeys == <<":", "w", "\n", ":", "e", " ", "a", "\n">>

InitRoundTrip ==
    /\ term_width \in Widths
    /\ term_height \in Heights
    /\ overflow_checks \in BOOLEAN
    /\ \E c \in Contents : InitWith(PathA :> c, PathA, RoundTripKeys)

SpecRoundTrip == InitRoundTrip /\ [][NextScript]_vars

(* Scenario 1 of the specification's testable properties. *)
Scenario1Keys ==
    <<"i", "h", "i", "\n", "t", "h", "e", "r", "e", "Esc", ":", "w", "q", "\n">>

HiThere == <<"h", "i", "\n", "t", "h", "e", "r", "e">>

ScenarioWidths == {2, 3}
ScenarioHeights == {2, 3}

ScenarioStarts ==
    { [files |-> <<>>, arg |-> NoName],
      [files |-> <<>>, arg |-> PathA],
      [files |-> PathA :> <<"\n">>, arg |-> PathA],
      [files |-> PathA :> <<>>, arg |-> PathA] }

InitScenario1 ==
    /\ term_width \in ScenarioWidths
    /\ term_height \in ScenarioHeights
    /\ overflow_checks \in BOOLEAN
    /\ \E s \in ScenarioStarts : InitWith(s.files, s.arg, Scenario1Keys)

SpecScenario1 == InitScenario1 /\ [][NextScript]_vars

(* Scenario 2 of the specification's testable properties: on a loaded     *)
(* file, move right twice, then down, down, up, up.                        *)
Scenario2Keys == <<"l", "l", "j", "j", "k", "k">>

(* The lines of the files of scenario 2, and the files: three or four      *)
(* lines as save_file writes them.                                         *)
Scenario2Lines == { <<>>, <<"a">>, <<"a", "b">> }

Scenario2Files ==
    { WriteLines(ls, 1) :
        ls \in [1..3 -> Scenario2Lines] \cup [1..4 -> Scenario2Lines] }

InitScenario2 ==
    /\ term_width \in ScenarioWidths
    /\ term_height \in ScenarioHeights
    /\ overflow_checks \in BOOLEAN
    /\ \E c \in Scenario2Files : InitWith(PathA :> c, PathA, Scenario2Keys)

SpecScenario2 == InitScenario2 /\ [][NextScript]_vars

-----------------------------------------------------------------------------
(* Editing runs: lines of a loaded file are split and merged, keys no      *)
(* handler names are typed in every mode, and commands that are not        *)
(* recognized are submitted.  No character is inserted, and the buffer     *)
(* grows to MaxLines lines at most.                                        *)

MaxLines == 3

EditWidths == {2}
EditHeights == {4}

EditStarts ==
    { [files |-> <<>>, arg |-> NoName],
      [files |-> PathA :> <<"a", "b", "\n", "c", "\n", "d">>, arg |-> PathA] }

InitEdit ==
    /\ term_width \in EditWidths
    /\ term_height \in EditHeights
    /\ overflow_checks \in BOOLEAN
    /\ \E s \in EditStarts : InitWith(s.files, s.arg, <<>>)

(* The command texts typed in the editing runs. *)
EditCommandTexts == { <<"x">>, <<"e">> }

EditKeysOf(m) ==
    CASE m = "Normal" ->
            {"i", ":", "h", "j", "k", "l", "Esc", "\n", "Backspace", "Other", "x"}
      [] m = "Insert" -> {"Esc", "\n", "Backspace"}
      [] m = "Command" ->
            {"Esc", "\n", "Backspace"}
            \cup {c \in {"x", "e"} :
                     \E t \in EditCommandTexts :
                        StartsWith(t, Append(command_buffer, c))}

EditInBounds(w) ==
    /\ Len(w.buffer) <= MaxLines
    /\ w.scroll_x + w.scroll_y <= MaxScroll

(* One turn of the loop after the draw, in an editing run. *)
EditKeyPress ==
    /\ pc = "key"
    /\ \E k \in EditKeysOf(mode) :
          LET w == ProcessKey(World, k)
          IN  /\ EditInBounds(w)
              /\ Commit(w, k)
    /\ UNCHANGED script

NextEdit == Draw \/ EditKeyPress

SpecEdit == InitEdit /\ [][NextEdit]_vars

-----------------------------------------------------------------------------
(* Split and merge: on a loaded file, move the cursor with up to MaxMoves  *)
(* of j and l, enter Insert mode, press Enter and then Backspace.          *)

MaxMoves == 3

MoveKeys == {"j", "l"}

Moves == UNION {[1..n -> MoveKeys] : n \in 0..MaxMoves}

SplitMergeKeys == { m \o <<"i", "\n", "Backspace">> : m \in Moves }

SplitMergeFiles ==
    { <<"a", "b", "\n", "c", "\n", "d">>, <<"\n", "a", "b">>, <<"a">> }

InitSplitMerge ==
    /\ term_width \in ScenarioWidths
    /\ term_height \in EditHeights \cup Heights
    /\ overflow_checks \in BOOLEAN
    /\ \E c \in SplitMergeFiles : \E keys \in SplitMergeKeys :
          InitWith(PathA :> c, PathA, keys)

SpecSplitMerge == InitSplitMerge /\ [][NextScript]_vars

-----------------------------------------------------------------------------
(* Properties. *)

(* A step of the loop that reads a key and handles it. *)
KeyStep(k) == pc = "key" /\ pc' # "key" /\ key' = k

(* The step that submits the command text c. *)
Submit(c) == KeyStep("\n") /\ mode = "Command" /\ command_buffer = c

(* The lines of a buffer joined by a single "\n". *)
RECURSIVE Joined(_)
Joined(buf) ==
    IF buf = <<>> THEN <<>>
    ELSE IF Len(buf) = 1 THEN buf[1]
    ELSE buf[1] \o <<"\n">> \o Joined(Tail(buf))

(* The paths <path> the commands of the properties name. *)
ClaimPaths == {PathA}

Missing(path) == path \notin DOMAIN fs \/ path \in Unopenable

(* C1: in every reachable state the buffer holds at least one line. *)
C1_BufferNeverEmpty == Len(buffer) >= 1

(* C2: in every reachable state the cursor is inside the buffer:           *)
(* 0 <= cursor_y < len(buffer) and 0 <= cursor_x <= len(buffer[cursor_y]). *)
C2_CursorInsideBuffer ==
    /\ 0 <= cursor_y
    /\ cursor_y < Len(buffer)
    /\ 0 <= cursor_x
    /\ cursor_x <= Len(Line(buffer, cursor_y))

(* C3: in every reachable state scroll_y <= cursor_y and                   *)
(* scroll_x <= cursor_x.                                                   *)
C3_ScrollNotPastCursor == scroll_y <= cursor_y /\ scroll_x <= cursor_x

(* C4: at every render the cursor's screen position                        *)
(* (cursor_x - scroll_x, cursor_y - scroll_y) is non-negative and inside   *)
(* the viewport: below term_width, and below the term_height - 2 text rows.*)
C4_CursorOnScreen ==
    pc = "draw" =>
        /\ 0 <= cursor_x - scroll_x
        /\ cursor_x - scroll_x < term_width
        /\ 0 <= cursor_y - scroll_y
        /\ cursor_y - scroll_y < term_height - 2

(* The round trip is over: the file was loaded, saved and loaded again. *)
RoundTripDone == script = <<>> /\ pc \in {"draw", "key"}

NoFinalEmptyLine(buf) == buf # <<>> => buf[Len(buf)] # <<>>

NoLineEndsInCR(buf) ==
    \A i \in 1..Len(buf) : buf[i] # <<>> => buf[i][Len(buf[i])] # "\r"

C6_SaveWritesJoinedLines ==
    [][ /\ (Submit(<<"w">>) \/ Submit(<<"w", "q">>)) /\ filename # NoName
           /\ pc' # "panicked"
           => /\ filename' = filename
              /\ filename \in DOMAIN fs'
              /\ fs'[filename] = Joined(buffer)
        /\ \A p \in ClaimPaths :
             Submit(<<"w", " ">> \o p) /\ pc' # "panicked"
             => /\ filename' = p
                /\ p \in DOMAIN fs'
                /\ fs'[p] = Joined(buffer)
      ]_vars

C6_Witness ==
    /\ pc = "draw"
    /\ key = "\n"
    /\ mode = "Normal"
    /\ command_buffer = <<"w", " ", "a">>
    /\ filename = PathA
    /\ buffer = << <<>>, <<>> >>
    /\ PathA \in DOMAIN fs
    /\ fs[PathA] = <<"\n">>

(* The editor started with an empty buffer. *)
StartedEmpty == first_load = << <<>> >>

C8_EscapeIdempotent ==
    [][ KeyStep("Esc")
        => /\ pc' = "draw"
           /\ mode' = "Normal"
           /\ mode = "Normal"
              => UNCHANGED <<mode, buffer, cursor_x, cursor_y, scroll_x,
                             scroll_y, command_buffer, filename, fs>>
           /\ mode # "Normal"
              => UNCHANGED <<buffer, cursor_x, cursor_y, scroll_x, scroll_y,
                             command_buffer, filename, fs>>
      ]_vars

C8_Witness ==
    /\ pc = "key"
    /\ key = "Esc"
    /\ mode = "Normal"
    /\ command_buffer = <<"w">>
    /\ frame # NoFrame
    /\ frame[1].command_line = NoText

C10_WriteWithoutName ==
    [][ Submit(<<"w">>) /\ filename = NoName
        => /\ UNCHANGED <<fs, buffer, cursor_x, cursor_y, scroll_x, scroll_y,
                          filename>>
           /\ command_buffer' = ErrNoFile
           /\ mode' = "Normal"
           /\ pc' = "draw"
      ]_vars

C10_Witness ==
    /\ pc = "draw"
    /\ key = "\n"
    /\ mode = "Normal"
    /\ command_buffer = ErrNoFile
    /\ filename = NoName
    /\ fs = <<>>
    /\ Len(buffer) = 2

(* The process has ended: by exit(0), or by a panic. *)
Ended(p) == p \in {"exited", "panicked"}

(* C11: the process ends only by submitting q or wq in Command mode, and   *)
(* then by exit(0); no other step of the loop ends it.                     *)
C11_StopsOnlyByQuit ==
    [][ (~Ended(pc) /\ Ended(pc'))
        => /\ pc' = "exited"
           /\ KeyStep("\n")
           /\ mode = "Command"
           /\ Trim(command_buffer) \in {<<"q">>, <<"w", "q">>}
      ]_vars

(* What submitting the command text c in the current state leaves behind. *)
Submitted(c) == ExecuteCommand([World EXCEPT !.command_buffer = c])

(* C12: a command text submitted with whitespace before or after it has    *)
(* the effect of the trimmed text: on buffer, cursor, scroll offsets, file *)
(* name, files, mode and on whether and how the process ends, and on the   *)
(* status text when the command sets one.                                  *)
C12_TrimmedInterpretation ==
    [][ (KeyStep("\n") /\ mode = "Command")
        => LET trimmed == Submitted(Trim(command_buffer))
           IN  /\ buffer' = trimmed.buffer
               /\ cursor_x' = trimmed.cursor_x
               /\ cursor_y' = trimmed.cursor_y
               /\ scroll_x' = trimmed.scroll_x
               /\ scroll_y' = trimmed.scroll_y
               /\ filename' = trimmed.filename
               /\ fs' = trimmed.fs
               /\ mode' = trimmed.mode
               /\ pc' = (IF trimmed.status = "running" THEN "draw"
                         ELSE trimmed.status)
               /\ trimmed.command_buffer # Trim(command_buffer)
                  => command_buffer' = trimmed.command_buffer
      ]_vars

(* The text t occurs in the text s. *)
Contains(s, t) ==
    \E i \in 0..(Len(s) - Len(t)) : SubSeq(s, i + 1, i + Len(t)) = t

(* The frame f has the text t on screen: in a row of the buffer's lines,   *)
(* in the file name of the status line, or in the command line.            *)
FrameShows(f, t) ==
    \/ \E i \in DOMAIN f.rows : Contains(f.rows[i], t)
    \/ Contains(f.status_name, t)
    \/ f.command_line # NoText /\ Contains(f.command_line, t)

(* The frame on screen is the one drawn right after a command was          *)
(* submitted and handled.                                                  *)
FrameAfterSubmit == pc = "key" /\ key = "\n" /\ mode = "Normal"

(* C13: the frame drawn right after w was submitted with no file name      *)
(* contains the text "Error: no file to write".                            *)
C13_ErrorOnNextFrame ==
    (FrameAfterSubmit /\ command_buffer = ErrNoFile)
        => FrameShows(frame[1], ErrNoFile)

(* The submit ends the session by a panic: the editor neither returns to   *)
(* Normal mode nor sets a status text, and no file is written.             *)
Aborts ==
    /\ pc' = "panicked"
    /\ mode' = "Command"
    /\ command_buffer' = command_buffer
    /\ fs' = fs

(* C14: when the file to write cannot be opened, w and wq with a file name *)
(* present, and w <path>, abort the session instead of returning to Normal *)
(* mode with a status message.                                             *)
C14_SaveFailureFatal ==
    [][ /\ ((Submit(<<"w">>) \/ Submit(<<"w", "q">>))
            /\ filename # NoName /\ filename \in Unopenable)
           => Aborts /\ filename' = filename
        /\ \A p \in ClaimPaths \cup Unopenable :
             (Submit(<<"w", " ">> \o p) /\ p \in Unopenable)
             => Aborts /\ filename' = p
      ]_vars

C14_Witness ==
    /\ pc = "panicked"
    /\ key = "\n"
    /\ mode = "Command"
    /\ command_buffer = <<"w">>
    /\ filename \in Unopenable
    /\ Len(buffer) = 2
    /\ fs = <<>>

(* The column the two l of scenario 2 leave the cursor at, on the first    *)
(* line.                                                                   *)
Scenario2Column == Min(2, Len(first_load[1]))

(* The j, j, k, k of scenario 2 are about to be typed, or have been typed, *)
(* on a buffer of at least 3 lines.                                        *)
Scenario2Before ==
    Len(first_load) >= 3 /\ script = <<"j", "j", "k", "k">> /\ pc = "key"

Scenario2After == Len(first_load) >= 3 /\ script = <<>>

C16_BackspaceMerges ==
    [][ (KeyStep("Backspace") /\ mode = "Insert" /\ cursor_x = 0)
        => /\ (cursor_y > 0 /\ cursor_y < Len(buffer))
              => /\ pc' = "draw"
                 /\ Len(buffer') = Len(buffer) - 1
                 /\ Line(buffer', cursor_y - 1)
                       = Line(buffer, cursor_y - 1) \o Line(buffer, cursor_y)
                 /\ \A i \in 0..(cursor_y - 2) : Line(buffer', i) = Line(buffer, i)
                 /\ \A i \in (cursor_y + 1)..(Len(buffer) - 1) :
                       Line(buffer', i - 1) = Line(buffer, i)
                 /\ cursor_x' = Len(Line(buffer, cursor_y - 1))
                 /\ cursor_y' = cursor_y - 1
           /\ cursor_y = 0
              => /\ pc' = "draw"
                 /\ UNCHANGED <<buffer, cursor_x, cursor_y, scroll_x, scroll_y,
                                mode, command_buffer, filename, fs>>
      ]_vars

C16_Witness ==
    /\ pc = "draw"
    /\ key = "Backspace"
    /\ mode = "Insert"
    /\ buffer = << <<"a", "b", "c">>, <<"d">> >>
    /\ cursor_x = 2
    /\ cursor_y = 0

(* C17: the mode is Normal at the start and changes only from Normal to    *)
(* Insert on i, from Normal to Command on : (which empties the command     *)
(* text), from Insert to Normal on Escape, and from Command to Normal on   *)
(* Escape or on Enter with a command that does not end the process; and    *)
(* each of these keys makes its change.                                    *)
C17_ModeTransitions ==
    /\ mode = "Normal"
    /\ [][ /\ mode' # mode
              => \/ /\ mode = "Normal" /\ mode' = "Insert"
                    /\ KeyStep("i")
                 \/ /\ mode = "Normal" /\ mode' = "Command"
                    /\ KeyStep(":")
                 \/ /\ mode = "Insert" /\ mode' = "Normal"
                    /\ KeyStep("Esc")
                 \/ /\ mode = "Command" /\ mode' = "Normal"
                    /\ KeyStep("Esc") \/ (KeyStep("\n") /\ pc' = "draw")
           /\ (KeyStep("i") /\ mode = "Normal") => mode' = "Insert"
           /\ (KeyStep(":") /\ mode = "Normal")
              => mode' = "Command" /\ command_buffer' = <<>>
           /\ (KeyStep("Esc") /\ mode \in {"Insert", "Command"})
              => mode' = "Normal"
           /\ (KeyStep("\n") /\ mode = "Command" /\ pc' = "draw")
              => mode' = "Normal"
         ]_vars

C17_Witness ==
    /\ pc = "draw"
    /\ key = "\n"
    /\ mode = "Normal"
    /\ command_buffer = <<"e">>
    /\ buffer = << <<>>, <<>> >>
    /\ cursor_y = 1

(* A step of the loop that reads a key in Normal mode and handles it. *)
NormalKeyStep == pc = "key" /\ pc' # "key" /\ mode = "Normal"

(* C18: in Normal mode a key other than i, :, h, j, k, l leaves the whole  *)
(* editor state as it was, and h, j, k, l leave buffer, file name, mode    *)
(* and command text as they were.                                          *)
C18_NormalModeFrame ==
    [][ NormalKeyStep
        => /\ key' \notin {"i", ":", "h", "j", "k", "l"}
              => /\ pc' = "draw"
                 /\ UNCHANGED <<mode, buffer, cursor_x, cursor_y, scroll_x,
                                scroll_y, command_buffer, filename, fs>>
           /\ key' \in {"h", "j", "k", "l"}
              => UNCHANGED <<buffer, filename, mode, command_buffer, fs>>
      ]_vars

C18_Witness ==
    /\ pc = "draw"
    /\ key = "Other"
    /\ mode = "Normal"
    /\ buffer = << <<"a", "b">>, <<"c">>, <<"d">> >>
    /\ cursor_x = 2
    /\ cursor_y = 0
    /\ scroll_x = 1
    /\ command_buffer = <<"x">>

(* The command text c is one of q, w, w <path>, wq, e <path>, as typed or  *)
(* once trimmed.                                                           *)
Recognized(c) ==
    \/ Trim(c) \in {<<"q">>, <<"w">>, <<"w", "q">>}
    \/ \E p \in {<<"w", " ">>, <<"e", " ">>} :
          StartsWith(c, p) \/ StartsWith(Trim(c), p)

(* C19: submitting a command text that is none of q, w, w <path>, wq,      *)
(* e <path> leaves buffer, cursor, scroll offsets, file name and files as  *)
(* they were, does not end the process and returns to Normal mode.         *)
C19_UnrecognizedCommand ==
    [][ (KeyStep("\n") /\ mode = "Command" /\ ~Recognized(command_buffer))
        => /\ UNCHANGED <<buffer, cursor_x, cursor_y, scroll_x, scroll_y,
                          filename, fs>>
           /\ pc' = "draw"
           /\ mode' = "Normal"
      ]_vars

C19_Witness ==
    /\ pc = "draw"
    /\ key = "\n"
    /\ mode = "Normal"
    /\ command_buffer = <<"x">>
    /\ buffer = << <<"a", "b">>, <<"c">>, <<"d">> >>
    /\ cursor_x = 1
    /\ cursor_y = 2
    /\ filename = PathA
    /\ fs = PathA :> <<"a", "b", "\n", "c", "\n", "d">>

(* The cursor is on a line of the buffer, at most at its end. *)
CursorWithinBounds ==
    cursor_y < Len(buffer) /\ cursor_x <= Len(Line(buffer, cursor_y))

(* What Enter and then Backspace leave of the current state. *)
EnterThenBackspace == ProcessKey(ProcessKey(World, "\n"), "Backspace")

(* C20: in Insert mode with the cursor within bounds, Enter and then       *)
(* Backspace leave the buffer and the cursor (cursor_x, cursor_y) as they  *)
(* were before Enter.                                                      *)
C20_EnterBackspaceRestores ==
    /\ (pc = "key" /\ mode = "Insert" /\ CursorWithinBounds)
       => /\ EnterThenBackspace.status = "running"
          /\ EnterThenBackspace.mode = "Insert"
          /\ EnterThenBackspace.buffer = buffer
          /\ EnterThenBackspace.cursor_x = cursor_x
          /\ EnterThenBackspace.cursor_y = cursor_y
    /\ script = <<>> => buffer = first_load /\ CursorWithinBounds

C20_Witness ==
    /\ script = <<>>
    /\ pc = "draw"
    /\ key = "Backspace"
    /\ mode = "Insert"
    /\ buffer = << <<"a", "b">>, <<"c">>, <<"d">> >>
    /\ cursor_x = 1
    /\ cursor_y = 0
    /\ scroll_y = 1

=============================================================================
